---- MODULE Spec2Model ----
(***************************************************************************)
(* Model of groopm/stream_ext.pyx: merge(x_len, x, x_inds, y_len, y,       *)
(* y_inds, out_len, out, out_inds, i, j), the two-way merge of two         *)
(* ascending runs with satellite indices.                                  *)
(*                                                                         *)
(* Buffers are Python sequences, modelled as functions on 0..len-1 so that *)
(* the source's 0-based subscripts are kept.  merge is an untyped `def`,   *)
(* so every subscript has Python semantics: b[p] with p >= len(b) raises   *)
(* IndexError, which leaves merge at once.  The variables rd, trace, i0,   *)
(* j0 and calls are history variables: they record what the loop did and   *)
(* never influence it.                                                     *)
(***************************************************************************)
EXTENDS Integers, Sequences, FiniteSets

VARIABLES x_len, x, x_inds, y_len, y, y_inds, out_len, out, out_inds,
          i, j, k, pc, i0, j0, rd, trace, calls

vars == <<x_len, x, x_inds, y_len, y, y_inds, out_len, out, out_inds,
          i, j, k, pc, i0, j0, rd, trace, calls>>

inputs == <<x_len, x, x_inds, y_len, y, y_inds>>

\* ------------------------------------------------------------------ bounds
\* Longest run drawn for X and for Y.
MaxLen == 2
\* Run values are drawn from 1..MaxVal.
MaxVal == 2
\* A call may ask for at most MaxOver elements more than remain.
MaxOver == 2

Values == 1..MaxVal

\* Length of the caller's pre-allocated output buffers.
OutCap == 2 * MaxLen + MaxOver

\* ----------------------------------------------------------- the caller
\* The ascending runs of length n over Values.
AscRuns(n) ==
  {f \in [0..(n-1) -> Values] : \A p \in 0..(n-2) : f[p] <= f[p+1]}

\* Satellite indices are opaque payload that merge only copies; the caller's
\* are pairwise distinct, so that any mismatch of value and index shows.
XTag(p) == 10 + p

YTag(p) == 20 + p

\* Sentinel pre-fill of the output buffers: no run value, no index, and
\* different at every position.
OutFill(p) == 0 - (p + 1)

FreshOut == [p \in 0..(OutCap-1) |-> OutFill(p)]

\* The concrete scenario of the specification's testable properties.
ScenarioX == [p \in 0..2 |-> 2 * p + 1]

ScenarioY == [p \in 0..2 |-> IF p = 0 THEN 2 ELSE 3 * p]

IsScenario == x_len = 3 /\ y_len = 3 /\ x = ScenarioX /\ y = ScenarioY

\* len(b) of a Python sequence.
PyLen(b) == Cardinality(DOMAIN b)

\* b[p] is defined (no IndexError); cursors are never negative here.
InRange(b, p) == p \in DOMAIN b

\* ------------------------------------------------------------ merge: code
\* for k in range(out_len): another iteration follows.
LoopHasNextOffByOne(kk, n) == kk <= n

LoopHasNext(kk, n) == kk < n

\* if j < y_len and (i==x_len or y[j] < x[i])
TakeYReversed(ci, cj) ==
  cj < y_len /\ (IF ci = x_len THEN TRUE ELSE y[cj] > x[ci])

TakeYNotStable(ci, cj) ==
  cj < y_len /\ (IF ci = x_len THEN TRUE ELSE y[cj] <= x[ci])

TakeYNoExhaust(ci, cj) == cj < y_len /\ ci # x_len /\ y[cj] < x[ci]

\* (`or` short-circuits: y[j] < x[i] is evaluated only when i # x_len)
TakeY(ci, cj) ==
  cj < y_len /\ (IF ci = x_len THEN TRUE ELSE y[cj] < x[ci])

\* The subscripts the condition evaluates, left to right with short circuit.
CondReads(ci, cj) ==
  IF cj < y_len /\ ci # x_len
  THEN IF InRange(y, cj) THEN {<<"y", cj>>, <<"x", ci>>} ELSE {<<"y", cj>>}
  ELSE {}

\* The condition evaluates without IndexError.
CondOK(ci, cj) ==
  (cj < y_len /\ ci # x_len) => (InRange(y, cj) /\ InRange(x, ci))

\* The subscripts the chosen branch evaluates: the value, then the index.
BranchReads(ci, cj) ==
  IF TakeY(ci, cj)
  THEN {<<"y", cj>>} \cup (IF InRange(y, cj) THEN {<<"y_inds", cj>>} ELSE {})
  ELSE {<<"x", ci>>} \cup (IF InRange(x, ci) THEN {<<"x_inds", ci>>} ELSE {})

StepReads(ci, cj) ==
  CondReads(ci, cj) \cup (IF CondOK(ci, cj) THEN BranchReads(ci, cj) ELSE {})

\* The whole iteration evaluates without IndexError.
StepOK(ci, cj) ==
  /\ CondOK(ci, cj)
  /\ IF TakeY(ci, cj)
     THEN InRange(y, cj) /\ InRange(y_inds, cj)
     ELSE InRange(x, ci) /\ InRange(x_inds, ci)

\* out[k] = v
EmitOffByOne(buf, kk, v) == [buf EXCEPT ![kk + 1] = v]

Emit(buf, kk, v) == [buf EXCEPT ![kk] = v]

\* The index written beside y[j]: y_inds[j].
YIndWrongPos(cj) == y_inds[0]

YInd(cj) == y_inds[cj]

\* The index written beside x[i]: x_inds[i].
XIndWrongRun(ci) == IF InRange(y_inds, ci) THEN y_inds[ci] ELSE x_inds[ci]

XInd(ci) == x_inds[ci]

\* The caller's precondition on a call merge(.., out_len = n, .., ci, cj).
ValidCall(ci, cj, n) ==
  /\ 0 <= ci /\ ci <= x_len
  /\ 0 <= cj /\ cj <= y_len
  /\ 0 <= n /\ n <= (x_len - ci) + (y_len - cj)

\* Entering merge: fresh sentinel-filled output buffers, cursors as passed.
Enter(ci, cj, n) ==
  /\ out_len' = n
  /\ out' = FreshOut
  /\ out_inds' = FreshOut
  /\ i' = ci
  /\ j' = cj
  /\ k' = 0
  /\ i0' = ci
  /\ j0' = cj
  /\ rd' = {}
  /\ trace' = <<>>
  /\ pc' = "loop"
  /\ UNCHANGED <<inputs, calls>>

\* ---------------------------------------------------------------- states
Init ==
  /\ \/ /\ x_len \in 0..MaxLen
        /\ y_len \in 0..MaxLen
        /\ \E xs \in AscRuns(x_len), slack \in 0..1, g \in Values :
             x = [p \in 0..(x_len + slack - 1) |-> IF p < x_len THEN xs[p] ELSE g]
        /\ y \in AscRuns(y_len)
     \/ /\ x_len = 3
        /\ y_len = 3
        /\ x = ScenarioX
        /\ y = ScenarioY
  /\ x_inds = [p \in DOMAIN x |-> XTag(p)]
  /\ y_inds = [p \in DOMAIN y |-> YTag(p)]
  /\ out_len = 0
  /\ out = FreshOut
  /\ out_inds = FreshOut
  /\ i = 0
  /\ j = 0
  /\ k = 0
  /\ i0 = 0
  /\ j0 = 0
  /\ rd = {}
  /\ trace = <<>>
  /\ calls = <<>>
  /\ pc = "idle"

\* The caller invokes merge once; cursors are in range, out_len is whatever
\* the caller asks for (merge checks nothing).
Call ==
  /\ pc = "idle"
  /\ \E ci \in 0..x_len, cj \in 0..y_len :
       \E n \in 0..((x_len - ci) + (y_len - cj) + MaxOver) :
         /\ n <= OutCap
         /\ Enter(ci, cj, n)

\* One iteration through the if-branch: emit from Y.
StepY ==
  /\ pc = "loop"
  /\ LoopHasNext(k, out_len)
  /\ StepOK(i, j)
  /\ TakeY(i, j)
  /\ out' = Emit(out, k, y[j])
  /\ out_inds' = Emit(out_inds, k, YInd(j))
  /\ j' = j + 1
  /\ k' = k + 1
  /\ rd' = rd \cup StepReads(i, j)
  /\ trace' = Append(trace, [k |-> k, run |-> "y", pos |-> j, i |-> i, j |-> j])
  /\ UNCHANGED <<inputs, out_len, i, pc, i0, j0, calls>>

\* One iteration through the else-branch: emit from X.
StepX ==
  /\ pc = "loop"
  /\ LoopHasNext(k, out_len)
  /\ StepOK(i, j)
  /\ ~TakeY(i, j)
  /\ out' = Emit(out, k, x[i])
  /\ out_inds' = Emit(out_inds, k, XInd(i))
  /\ i' = i + 1
  /\ k' = k + 1
  /\ rd' = rd \cup StepReads(i, j)
  /\ trace' = Append(trace, [k |-> k, run |-> "x", pos |-> i, i |-> i, j |-> j])
  /\ UNCHANGED <<inputs, out_len, j, pc, i0, j0, calls>>

\* An iteration whose subscript raises IndexError: the exception leaves
\* merge before the statement's assignment is made.
StepIndexError ==
  /\ pc = "loop"
  /\ LoopHasNext(k, out_len)
  /\ ~StepOK(i, j)
  /\ rd' = rd \cup StepReads(i, j)
  /\ pc' = "IndexError"
  /\ UNCHANGED <<inputs, out_len, out, out_inds, i, j, k, i0, j0, trace, calls>>

\* range(out_len) is exhausted: merge returns None.
LoopExit ==
  /\ pc = "loop"
  /\ ~LoopHasNext(k, out_len)
  /\ pc' = "done"
  /\ calls' = Append(calls, [i0 |-> i0, j0 |-> j0, out_len |-> out_len,
                             out |-> out, out_inds |-> out_inds,
                             i |-> i, j |-> j])
  /\ UNCHANGED <<inputs, out_len, out, out_inds, i, j, k, i0, j0, rd, trace>>

Next == Call \/ StepY \/ StepX \/ StepIndexError \/ LoopExit

Spec == Init /\ [][Next]_vars

\* ------------------------------------------------- chunked use of merge
\* First chunk: a valid call of length a from any cursors.
CallFirst ==
  /\ pc = "idle"
  /\ calls = <<>>
  /\ \E ci \in 0..x_len, cj \in 0..y_len :
       \E n \in 0..((x_len - ci) + (y_len - cj)) : Enter(ci, cj, n)

\* Second chunk: resumed at the cursors the first chunk ended with.
CallResume ==
  /\ pc = "done"
  /\ Len(calls) = 1
  /\ \E n \in 0..((x_len - i) + (y_len - j)) : Enter(i, j, n)

\* The single merge of length a + b from the first chunk's start cursors.
CallWhole ==
  /\ pc = "done"
  /\ Len(calls) = 2
  /\ Enter(calls[1].i0, calls[1].j0, calls[1].out_len + calls[2].out_len)

NextChunk == CallFirst \/ CallResume \/ CallWhole \/ StepY \/ StepX \/ LoopExit

SpecChunk == Init /\ [][NextChunk]_vars

\* ------------------------------------------------------------ properties
\* The call in progress (or finished) satisfies the caller's precondition.
Valid == pc # "idle" /\ ValidCall(i0, j0, out_len)

\* Elements remaining in the two tails at the call.
Rem == (x_len - i0) + (y_len - j0)

\* Elements of the tails x[i0..x_len) and y[j0..y_len) that are <= v.
CountLE(v) ==
  Cardinality({p \in i0..(x_len-1) : x[p] <= v})
    + Cardinality({p \in j0..(y_len-1) : y[p] <= v})

TailValues == {x[p] : p \in i0..(x_len-1)} \cup {y[p] : p \in j0..(y_len-1)}

\* Element n (0-based) of the fully sorted merge of the two tails.
SortedAt(n) ==
  CHOOSE v \in TailValues :
    CountLE(v) > n /\ \A w \in TailValues : w < v => CountLE(w) <= n

ScenarioOut == [p \in 0..5 |-> <<1, 2, 3, 3, 5, 6>>[p + 1]]

ScenarioOutInds == [p \in 0..5 |-> <<10, 20, 11, 21, 12, 22>>[p + 1]]

\* C1: after a valid merge of ascending runs returns, out[0..out_len) is
\* non-decreasing and equals the first out_len elements of the fully sorted
\* merge of the tails x[i..x_len) and y[j..y_len); on the specification's
\* scenario the result is [1,2,3,3,5,6] with indices [10,20,11,21,12,22].
C1_SortedMergePrefix ==
  (pc = "done" /\ Valid) =>
    /\ \A p \in 0..(out_len-1) : out[p] = SortedAt(p)
    /\ \A p \in 0..(out_len-2) : out[p] <= out[p+1]
    /\ (IsScenario /\ i0 = 0 /\ j0 = 0 /\ out_len = 6) =>
         /\ \A p \in 0..5 : out[p] = ScenarioOut[p]
         /\ \A p \in 0..5 : out_inds[p] = ScenarioOutInds[p]

C1_Witness ==
  pc = "done" /\ IsScenario /\ i0 = 0 /\ j0 = 0 /\ out_len = 6

\* C2: merge is stable and X-favouring: an element taken from X and an
\* element taken from Y with the same value appear X first; and an iteration
\* that finds x[i] = y[j] at its cursors emits x[i] with x_inds[i].
C2_StableXFirst ==
  Valid =>
    /\ \A a, b \in 1..Len(trace) :
         (trace[a].run = "x" /\ trace[b].run = "y"
            /\ out[trace[a].k] = out[trace[b].k]) => trace[a].k < trace[b].k
    /\ \A a \in 1..Len(trace) :
         (trace[a].i < x_len /\ trace[a].j < y_len
            /\ x[trace[a].i] = y[trace[a].j]) =>
           /\ trace[a].run = "x"
           /\ out[trace[a].k] = x[trace[a].i]
           /\ out_inds[trace[a].k] = x_inds[trace[a].i]

C2_Witness ==
  /\ pc = "done" /\ Valid
  /\ \E a, b \in 1..Len(trace) :
       /\ trace[a].run = "x" /\ trace[b].run = "y"
       /\ out[trace[a].k] = out[trace[b].k]
       /\ x[trace[a].i] = y[trace[a].j]

\* C3: every written output position holds a value together with the index
\* of the very position of the very run the value was taken from.
C3_IndexPairing ==
  Valid =>
    /\ Len(trace) = k
    /\ \A a \in 1..Len(trace) :
         /\ trace[a].k = a - 1
         /\ trace[a].run = "x" =>
              /\ i0 <= trace[a].pos /\ trace[a].pos < x_len
              /\ out[trace[a].k] = x[trace[a].pos]
              /\ out_inds[trace[a].k] = x_inds[trace[a].pos]
         /\ trace[a].run = "y" =>
              /\ j0 <= trace[a].pos /\ trace[a].pos < y_len
              /\ out[trace[a].k] = y[trace[a].pos]
              /\ out_inds[trace[a].k] = y_inds[trace[a].pos]
    /\ \A p \in 0..(k-1) :
         \/ \E q \in 0..(x_len-1) : out[p] = x[q] /\ out_inds[p] = x_inds[q]
         \/ \E q \in 0..(y_len-1) : out[p] = y[q] /\ out_inds[p] = y_inds[q]

C3_Witness ==
  /\ pc = "done" /\ Valid /\ out_len >= 3
  /\ \E a, b \in 1..Len(trace) :
       /\ trace[a].run = "x" /\ trace[a].pos > 0 /\ trace[a].pos # trace[a].k
       /\ trace[b].run = "y" /\ trace[b].pos > 0

\* C4: a valid merge whose X cursor starts exhausted copies y[j..j+out_len)
\* and its indices verbatim; one whose Y cursor starts exhausted copies
\* x[i..i+out_len) and its indices verbatim.
C4_Exhaustion ==
  (pc = "done" /\ Valid) =>
    /\ i0 = x_len =>
         \A p \in 0..(out_len-1) :
           out[p] = y[j0 + p] /\ out_inds[p] = y_inds[j0 + p]
    /\ j0 = y_len =>
         \A p \in 0..(out_len-1) :
           out[p] = x[i0 + p] /\ out_inds[p] = x_inds[i0 + p]

C4_Witness ==
  /\ pc = "done" /\ Valid /\ out_len >= 2
  /\ i0 = x_len /\ x_len > 0 /\ PyLen(x) > x_len /\ j0 < y_len

\* C6: a call with out_len = 0, whatever the lengths and cursors, performs
\* no iteration: it reads nothing, writes nothing, leaves out, out_inds and
\* the input runs as they were, and returns.
C6_ZeroLengthNoOp ==
  [][(out_len' = 0 /\ pc' # "idle") =>
       /\ out' = FreshOut /\ out' = out
       /\ out_inds' = FreshOut /\ out_inds' = out_inds
       /\ inputs' = inputs
       /\ rd' = {} /\ trace' = <<>> /\ k' = 0
       /\ pc' \in {"loop", "done"}]_vars

C6_Witness ==
  pc = "done" /\ out_len = 0 /\ i0 = x_len /\ j0 = y_len /\ x_len > 0

\* C7: a valid call writes positions 0..out_len-1 of out and out_inds once
\* each, in increasing order, and changes neither a position >= out_len nor
\* any position of x, x_inds, y, y_inds.
C7_WriteFrame ==
  [][(pc' # "idle" /\ ValidCall(i0', j0', out_len')) =>
       /\ inputs' = inputs
       /\ k' <= out_len'
       /\ pc' = "done" => k' = out_len'
       /\ Len(trace') = k'
       /\ \A a \in 1..Len(trace') : trace'[a].k = a - 1
       /\ \A p \in DOMAIN out' :
            p >= k' => out'[p] = OutFill(p) /\ out_inds'[p] = OutFill(p)
       /\ \A p \in 0..(k'-1) :
            out'[p] # OutFill(p) /\ out_inds'[p] # OutFill(p)
       /\ \A p \in 0..(k-1) :
            pc = "loop" => out'[p] = out[p] /\ out_inds'[p] = out_inds[p]]_vars

C7_Witness ==
  pc = "done" /\ Valid /\ out_len >= 2 /\ out_len < Rem

\* C8: under the precondition, at the start of every iteration k the cursors
\* satisfy i0 <= i <= x_len, j0 <= j <= y_len and (i - i0) + (j - j0) = k;
\* an iteration advances exactly one cursor by exactly one and decreases
\* neither.
C8_CursorInvariant ==
  [][(pc' \in {"loop", "done"} /\ ValidCall(i0', j0', out_len')) =>
       /\ i0' <= i' /\ i' <= x_len'
       /\ j0' <= j' /\ j' <= y_len'
       /\ (i' - i0') + (j' - j0') = k'
       /\ pc = "loop" => (i' >= i /\ j' >= j)
       /\ (pc = "loop" /\ k' # k) =>
            /\ k' = k + 1
            /\ \/ i' = i + 1 /\ j' = j
               \/ i' = i /\ j' = j + 1]_vars

C8_Witness ==
  pc = "loop" /\ Valid /\ k >= 2 /\ k < out_len /\ i > i0 /\ j > j0

\* C9: under the precondition no iteration subscripts x or x_inds at a
\* position >= x_len, nor y or y_inds at a position >= y_len: the comparison
\* is evaluated only with j < y_len and i < x_len, the else-branch is
\* entered only with i < x_len, and no subscript raises.
C9_InBoundsReads ==
  Valid =>
    /\ pc # "IndexError"
    /\ \A r \in rd :
         /\ r[1] \in {"x", "x_inds"} => (0 <= r[2] /\ r[2] < x_len)
         /\ r[1] \in {"y", "y_inds"} => (0 <= r[2] /\ r[2] < y_len)
    /\ \A a \in 1..Len(trace) : trace[a].run = "x" => trace[a].i < x_len
    /\ (pc = "loop" /\ k < out_len) =>
         /\ CondReads(i, j) # {} => (i < x_len /\ j < y_len)
         /\ ~TakeY(i, j) => i < x_len

C9_Witness ==
  /\ pc = "done" /\ Valid /\ out_len = Rem /\ Rem >= 3
  /\ PyLen(x) > x_len /\ <<"x", x_len - 1>> \in rd /\ <<"y", y_len - 1>> \in rd

\* The iteration that begins with both runs exhausted.
BothExhausted == pc = "loop" /\ k < out_len /\ i = x_len /\ j = y_len

C5_ChunksCompose ==
  Len(calls) = 3 =>
    /\ calls[3].out_len = calls[1].out_len + calls[2].out_len
    /\ calls[3].i0 = calls[1].i0 /\ calls[3].j0 = calls[1].j0
    /\ calls[2].i0 = calls[1].i /\ calls[2].j0 = calls[1].j
    /\ \A p \in 0..(calls[3].out_len - 1) :
         IF p < calls[1].out_len
         THEN /\ calls[3].out[p] = calls[1].out[p]
              /\ calls[3].out_inds[p] = calls[1].out_inds[p]
         ELSE /\ calls[3].out[p] = calls[2].out[p - calls[1].out_len]
              /\ calls[3].out_inds[p] = calls[2].out_inds[p - calls[1].out_len]
    /\ (IsScenario /\ calls[1].i0 = 0 /\ calls[1].j0 = 0
          /\ calls[1].out_len = 2 /\ calls[2].out_len = 4) =>
         /\ calls[1].i = 1 /\ calls[1].j = 1
         /\ \A p \in 0..1 : /\ calls[1].out[p] = ScenarioOut[p]
                            /\ calls[1].out_inds[p] = ScenarioOutInds[p]
         /\ \A p \in 0..3 : /\ calls[2].out[p] = ScenarioOut[p + 2]
                            /\ calls[2].out_inds[p] = ScenarioOutInds[p + 2]

C5_Witness ==
  /\ Len(calls) = 3 /\ IsScenario
  /\ calls[1].i0 = 0 /\ calls[1].j0 = 0
  /\ calls[1].out_len = 2 /\ calls[2].out_len = 4

====
